---- MODULE Spec2Model ----
(***************************************************************************)
(* Model of simple.c: a platform driver that maps one byte-wide register   *)
(* (devm_ioremap_resource) and publishes it as a misc character device.    *)
(*                                                                         *)
(* The model covers one hardware unit (one platform_device), the physical  *)
(* register window it names, the driver's private struct, the misc device  *)
(* node, and a few user threads that each hold at most one file handle and *)
(* run at most one read()/write() call at a time.  The platform driver     *)
(* core is the caller of simple_probe()/simple_remove(): it calls probe    *)
(* only for an unbound device, remove only for a bound one, and releases   *)
(* the devm_ resources after remove() or after a failed probe().           *)
(***************************************************************************)
EXTENDS Integers, FiniteSets, Sequences

\* ------------------------------------------------------------------ bounds
NumThreads == 2          \* user threads issuing open/read/write/close
MaxCount == 2            \* largest `count` passed to read()/write()

\* ---------------------------------------------------------------- constants
ByteWidth == 256         \* ioread8/iowrite8 move one 8-bit value

Threads == 1..NumThreads
Counts == 0..MaxCount
\* user bytes tried: both sides of the sign bit of `char`
Bytes == {0, ByteWidth \div 2, ByteWidth - 1}
NoByte == 0 - 1

\* values of a `void *` as the driver sees them
Pointers == {"NULL", "IOMEM", "ERR_EBUSY", "ERR_ENOMEM"}
\* return values of misc_register()
MiscResults == {"0", "-EBUSY", "-ENOMEM"}

VARIABLES
    bound,        \* driver core: probe() returned 0 and remove() has not run
    phase,        \* driver core: "idle", or "releasing" (devres release pending)
    privLive,     \* the devm_kzalloc'ed struct simple_private is allocated
    addr,         \* priv->addr
    drvdata,      \* platform_get_drvdata(pdev): "NULL" or "priv"
    region,       \* owner of the physical range: "free", "simple", "other"
    mapped,       \* the ioremap mapping of the range is established
    published,    \* the misc device is registered (open() can find it)
    reg,          \* the hardware register, 0..ByteWidth-1
    fd,           \* fd[t]: "closed", "open", "stale" (its priv was freed)
    call,         \* call[t]: the thread's current or last read()/write() call
    hist,         \* what the last probe()/remove() did and returned
    seen,         \* <<cause, return value>> of every failed bind so far
    result,       \* the last read()/write() call that ended
    lastStore,    \* user byte of the latest store through a held mapping
    stored,       \* the register's first value and every user byte stored
    delivered     \* the byte the latest successful read handed to its caller

vars == <<bound, phase, privLive, addr, drvdata, region, mapped, published,
          reg, fd, call, hist, seen, result, lastStore, stored, delivered>>

\* history kept only by the specifications that need it
ghosts == <<hist, seen, result, lastStore, stored, delivered>>

lifecycle == <<bound, phase, privLive, addr, drvdata, region, mapped, published>>

\* -------------------------------------------------------------- conversions
\* u8 -> char (line 89: `data=ioread8(...)`, data is a `char`)
ToChar(u) == IF u >= ByteWidth \div 2 THEN u - ByteWidth ELSE u
ToU8SevenBit(c) == c % (ByteWidth \div 2)
\* char -> u8 (line 104: iowrite8 takes a u8; the byte seen by user space)
ToU8(c) == c % ByteWidth

\* -------------------------------------------------------------- call record
\* A call in flight: its position, its local `data`, the byte in the user
\* buffer, and whether it began after misc_deregister had returned.  (`count`
\* is not read again after the check at entry.)
NoCall ==
    [pc |-> "idle", data |-> 0, ubuf |-> NoByte, late |-> FALSE]

NoHist ==
    [event |-> "none", ret |-> "0", allocOk |-> TRUE, mapRes |-> "none",
     miscRet |-> "none", miscCalls |-> 0]

\* The last call that ended: what was asked, what came back, what it did
\* (op is "pending" while the call that passed the count check is in flight).
\*   xfer   "none" | "ok" | "fail": the copy_to_user/copy_from_user outcome
\*   nacc   number of ioread8/iowrite8 made, ncopy number of user copies
\*   ubuf   byte delivered to (read) or supplied by (write) user space
\*   valid  the access went through a held mapping
\*   src    user byte of the latest store that preceded a read's load
\*   regBefore, regAfter  the register when the call's last step began and
\*          when the call ended
NoResult ==
    [op |-> "none", count |-> 0, ret |-> 0, xfer |-> "none", nacc |-> 0,
     ncopy |-> 0, ubuf |-> NoByte, valid |-> FALSE, src |-> NoByte,
     regBefore |-> NoByte, regAfter |-> NoByte]

Init ==
    /\ bound = FALSE
    /\ phase = "idle"
    /\ privLive = FALSE
    /\ addr = "NULL"
    /\ drvdata = "NULL"
    /\ region \in {"free", "other"}
    /\ mapped = FALSE
    /\ published = FALSE
    /\ reg \in Bytes
    /\ fd = [t \in Threads |-> "closed"]
    /\ call = [t \in Threads |-> NoCall]
    /\ hist = NoHist
    /\ seen = {}
    /\ result = NoResult
    /\ lastStore = NoByte
    /\ stored = {reg}
    /\ delivered = NoByte

TypeOK ==
    /\ bound \in BOOLEAN /\ privLive \in BOOLEAN
    /\ mapped \in BOOLEAN /\ published \in BOOLEAN
    /\ phase \in {"idle", "releasing"}
    /\ addr \in Pointers
    /\ drvdata \in {"NULL", "priv"}
    /\ region \in {"free", "simple", "other"}
    /\ reg \in Bytes
    /\ fd \in [Threads -> {"closed", "open", "stale"}]
    /\ \A t \in Threads :
          /\ call[t].pc \in {"idle", "load", "store"}
          /\ call[t].data \in {ToChar(b) : b \in Bytes}
          /\ call[t].ubuf \in Bytes \cup {NoByte}
    /\ mapped => (region = "simple" /\ addr = "IOMEM" /\ privLive)
    /\ published => (privLive /\ drvdata = "priv")
    /\ \A t \in Threads : fd[t] = "open" => privLive

\* ------------------------------------------------------- kernel primitives
\* `!p` as the C code tests a pointer (lines 132, 140)
IsNull(p) == p = "NULL"

\* devm_kzalloc (line 131): the zeroed private struct, or NULL
devm_kzalloc(allocOk) == IF allocOk THEN "priv" ELSE "NULL"

\* devm_ioremap_resource (lines 137-139): reserves the range, then maps it.
\* It reports failure as an ERR_PTR-encoded errno and never returns NULL;
\* a range it reserved is given back when the mapping fails.
devm_ioremap_resource(owner, ioremapOk) ==
    IF owner # "free"
    THEN [ptr |-> "ERR_EBUSY", region |-> owner, mapped |-> FALSE]
    ELSE IF ioremapOk
         THEN [ptr |-> "IOMEM", region |-> "simple", mapped |-> TRUE]
         ELSE [ptr |-> "ERR_ENOMEM", region |-> "free", mapped |-> FALSE]

\* misc_register (line 153): 0, or a negative errno
misc_register(miscOut) == miscOut

\* line 153: `return misc_register(&priv->miscdev);`
ProbeReturnMasked(miscRet) == IF miscRet = "0" THEN "0" ELSE "-ENOMEM"
ProbeReturn(miscRet) == miscRet

\* ------------------------------------------------------------ simple_probe
\* The state simple_probe leaves and the value it returns.
simple_probe(allocOk, ioremapOk, miscOut) ==
    LET priv == devm_kzalloc(allocOk)
        m == devm_ioremap_resource(region, ioremapOk)
    IN  IF IsNull(priv)
        THEN [ret |-> "-ENOMEM", privLive |-> FALSE, addr |-> "NULL",
              drvdata |-> drvdata, region |-> region, mapped |-> FALSE,
              published |-> FALSE, mapRes |-> "none", miscRet |-> "none",
              miscCalls |-> 0]
        ELSE IF IsNull(m.ptr)
        THEN [ret |-> "-ENOMEM", privLive |-> TRUE, addr |-> m.ptr,
              drvdata |-> drvdata, region |-> m.region, mapped |-> m.mapped,
              published |-> FALSE, mapRes |-> m.ptr, miscRet |-> "none",
              miscCalls |-> 0]
        ELSE [ret |-> ProbeReturn(misc_register(miscOut)), privLive |-> TRUE,
              addr |-> m.ptr, drvdata |-> "priv", region |-> m.region,
              mapped |-> m.mapped, published |-> (misc_register(miscOut) = "0"),
              mapRes |-> m.ptr, miscRet |-> misc_register(miscOut),
              miscCalls |-> 1]

\* The first thing that went wrong in a bind, "none" if nothing did.
Cause(h) ==
    IF ~h.allocOk THEN "alloc"
    ELSE IF h.mapRes = "ERR_EBUSY" THEN "busy"
    ELSE IF h.mapRes = "ERR_ENOMEM" THEN "map"
    ELSE IF h.miscRet \notin {"0", "none"} THEN "publish"
    ELSE "none"

\* Bind event: the driver core calls simple_probe for an unbound device;
\* a non-zero return leaves the device unbound with its devm_ resources
\* still to be released.
ProbeCore(allocOk, ioremapOk, miscOut) ==
    /\ ~bound
    /\ phase = "idle"
    /\ LET r == simple_probe(allocOk, ioremapOk, miscOut) IN
        /\ privLive' = r.privLive
        /\ addr' = r.addr
        /\ drvdata' = r.drvdata
        /\ region' = r.region
        /\ mapped' = r.mapped
        /\ published' = r.published
        /\ bound' = (r.ret = "0")
        /\ phase' = IF r.ret = "0" THEN "idle" ELSE "releasing"
    /\ UNCHANGED <<reg, fd, call>>

Probe ==
    \E allocOk \in BOOLEAN, ioremapOk \in BOOLEAN, miscOut \in MiscResults :
        /\ ProbeCore(allocOk, ioremapOk, miscOut)
        /\ UNCHANGED ghosts

\* ----------------------------------------------------------- simple_remove
misc_deregisterMissing(pub) == pub
\* misc_deregister (line 161): the node is gone, open files stay open
misc_deregister(pub) == FALSE

\* Unbind event: the driver core calls simple_remove for a bound device.
RemoveCore ==
    /\ bound
    /\ phase = "idle"
    /\ drvdata = "priv"
    /\ published' = misc_deregister(published)
    /\ phase' = "releasing"
    /\ UNCHANGED <<bound, privLive, addr, drvdata, region, mapped, reg, fd,
                   call>>

Remove == RemoveCore /\ UNCHANGED ghosts

\* What the devm_ release leaves of the range (line 162: "no other cleanup
\* is necessary: devm_ functions take care for this").
ReleasedRegionLeak(owner) == owner
ReleasedRegion(owner) == IF owner = "simple" THEN "free" ELSE owner

\* The driver core releases the device's devm_ resources after remove()
\* and after a failed probe(): the mapping, the range, the private struct.
\* Files still open keep pointing at the freed struct.
DevresRelease ==
    /\ phase = "releasing"
    /\ phase' = "idle"
    /\ bound' = FALSE
    /\ privLive' = FALSE
    /\ addr' = "NULL"
    /\ drvdata' = "NULL"
    /\ mapped' = FALSE
    /\ region' = ReleasedRegion(region)
    /\ fd' = [t \in Threads |-> IF fd[t] = "open" THEN "stale" ELSE fd[t]]
    /\ UNCHANGED <<published, reg, call>>
    /\ UNCHANGED ghosts

\* Another consumer of the physical range reserves or releases it.
OtherRequest ==
    /\ region = "free"
    /\ region' = "other"
    /\ UNCHANGED <<bound, phase, privLive, addr, drvdata, mapped, published,
                   reg, fd, call>>
    /\ UNCHANGED ghosts

OtherRelease ==
    /\ region = "other"
    /\ region' = "free"
    /\ UNCHANGED <<bound, phase, privLive, addr, drvdata, mapped, published,
                   reg, fd, call>>
    /\ UNCHANGED ghosts

\* Bind and unbind events as above, with the history kept.
HistAfterProbe(allocOk, ioremapOk, miscOut) ==
    LET r == simple_probe(allocOk, ioremapOk, miscOut) IN
    [event |-> IF r.ret = "0" THEN "probe_ok" ELSE "probe_fail",
     ret |-> r.ret, allocOk |-> allocOk, mapRes |-> r.mapRes,
     miscRet |-> r.miscRet, miscCalls |-> r.miscCalls]

ProbeT ==
    \E allocOk \in BOOLEAN, ioremapOk \in BOOLEAN, miscOut \in MiscResults :
        /\ ProbeCore(allocOk, ioremapOk, miscOut)
        /\ hist' = HistAfterProbe(allocOk, ioremapOk, miscOut)
        /\ seen' = IF Cause(hist') = "none" THEN seen
                   ELSE seen \cup {<<Cause(hist'), hist'.ret>>}
        /\ UNCHANGED <<result, lastStore, stored, delivered>>

RemoveT ==
    /\ RemoveCore
    /\ hist' = [hist EXCEPT !.event = "remove", !.ret = "0"]
    /\ UNCHANGED <<seen, result, lastStore, stored, delivered>>

\* ------------------------------------------------------------ file handles
simplemisc_openExclusive ==
    IF \E u \in Threads : fd[u] = "open" THEN "-EBUSY" ELSE "0"
\* simplemisc_open / simplemisc_release (lines 55-65): always 0
simplemisc_open == "0"
simplemisc_release == "0"

\* open(): the node must exist; the file then points at this miscdevice.
Open(t) ==
    /\ published
    /\ fd[t] = "closed"
    /\ simplemisc_open = "0"
    /\ fd' = [fd EXCEPT ![t] = "open"]
    /\ UNCHANGED <<lifecycle, reg, call>>
    /\ UNCHANGED ghosts

Close(t) ==
    /\ fd[t] # "closed"
    /\ call[t].pc = "idle"
    /\ simplemisc_release = "0"
    /\ fd' = [fd EXCEPT ![t] = "closed"]
    /\ UNCHANGED <<lifecycle, reg, call>>
    /\ UNCHANGED ghosts

\* The access `priv->addr` of thread t goes through a held mapping: its
\* file points at a live private struct whose addr is the mapping.
Valid(t) == fd[t] = "open" /\ addr = "IOMEM" /\ mapped

\* ----------------------------------------------------------- read / write
\* `if(count==0)return 0;` (lines 88, 102)
CountIsZeroMissing(count) == FALSE
CountIsZero(count) == count = 0

\* copy_to_user / copy_from_user of one byte: the number of bytes NOT copied
copy_to_user(ok) == IF ok THEN 0 ELSE 1
copy_from_user(ok) == IF ok THEN 0 ELSE 1

ReadReturnEfault(notCopied) == IF notCopied = 1 THEN 0 - 14 ELSE 1
\* lines 90-92: `if(copy_to_user(buf,&data,1)==1) return 0; return 1;`
ReadReturn(notCopied) == IF notCopied = 1 THEN 0 ELSE 1

WriteGivesUpMissing(notCopied) == FALSE
\* line 103: `if(copy_from_user(&data,buf, 1)==1) return 0;`
WriteGivesUp(notCopied) == notCopied = 1

ioread8WrongCell(t, junk) == junk
\* line 89: the byte ioread8 yields.  Through a pointer that is not a held
\* mapping the load is undefined: any byte (or a fault, see Oops).
ioread8(t, junk) == IF Valid(t) THEN reg ELSE junk

\* line 104: the register after iowrite8.  Through a pointer that is not a
\* held mapping the store is undefined: it may land on the register when a
\* mapping exists again, or be lost (or fault, see Oops).
iowrite8(t, data, hit) ==
    IF Valid(t) THEN ToU8(data)
    ELSE IF hit /\ mapped THEN ToU8(data) ELSE reg

ReadOutcomeLoop(t, count, copyOk, junk) ==
    [ret |-> IF copyOk THEN count ELSE 0,
     ubuf |-> IF copyOk THEN ToU8(ToChar(ioread8(t, junk))) ELSE NoByte,
     nacc |-> count, ncopy |-> 1]
ReadOutcomeCopyFirst(t, count, copyOk, junk) ==
    [ret |-> ReadReturn(copy_to_user(copyOk)),
     ubuf |-> IF copyOk THEN ToU8(ToChar(ioread8(t, junk))) ELSE NoByte,
     nacc |-> IF copyOk THEN 1 ELSE 0, ncopy |-> 1]
\* What a read that passed the count check does and returns (lines 89-92):
\* one load, one copy of that byte to user space.
ReadOutcome(t, count, copyOk, junk) ==
    LET data == ToChar(ioread8(t, junk))
        notCopied == copy_to_user(copyOk)
    IN  [ret |-> ReadReturn(notCopied),
         ubuf |-> IF notCopied = 0 THEN ToU8(data) ELSE NoByte,
         nacc |-> 1, ncopy |-> 1]

WriteOutcomeReturnsByte(t, data, hit) ==
    [ret |-> ToU8(data), reg |-> iowrite8(t, data, hit), nacc |-> 1,
     ncopy |-> 1]
\* What a write that passed the count check and the copy from user space
\* does and returns (lines 104-105): one store, 1.
WriteOutcome(t, data, hit) ==
    [ret |-> 1, reg |-> iowrite8(t, data, hit), nacc |-> 1, ncopy |-> 1]

\* simplemisc_read, lines 86-88: entry and the count check
ReadEnterCore(t, count) ==
    /\ fd[t] # "closed"
    /\ call[t].pc = "idle"
    /\ call' = [call EXCEPT ![t] =
                  IF CountIsZero(count) THEN NoCall
                  ELSE [pc |-> "load", data |-> 0, ubuf |-> NoByte,
                        late |-> ~published]]
    /\ UNCHANGED <<lifecycle, reg, fd>>

\* simplemisc_read, lines 89-92: the load, then the copy to user space.  The
\* copy touches only the caller's buffer, so the two are one step; what the
\* caller gets is ReadOutcome.
ReadXferCore(t) ==
    /\ call[t].pc = "load"
    /\ call' = [call EXCEPT ![t] = NoCall]
    /\ UNCHANGED <<lifecycle, reg, fd>>

\* simplemisc_write, lines 100-103: entry, the count check, the copy from
\* user space into `data`
WriteEnterCore(t, count, v, copyOk) ==
    /\ fd[t] # "closed"
    /\ call[t].pc = "idle"
    /\ call' = [call EXCEPT ![t] =
                  IF CountIsZero(count) \/ WriteGivesUp(copy_from_user(copyOk))
                  THEN NoCall
                  ELSE [pc |-> "store", data |-> ToChar(v), ubuf |-> v,
                        late |-> ~published]]
    /\ UNCHANGED <<lifecycle, reg, fd>>

\* simplemisc_write, lines 104-105: the store
WriteStoreCore(t, hit) ==
    /\ call[t].pc = "store"
    /\ reg' = WriteOutcome(t, call[t].data, hit).reg
    /\ call' = [call EXCEPT ![t] = NoCall]
    /\ UNCHANGED <<lifecycle, fd>>

\* An access through a pointer that is not a held mapping may fault: the
\* kernel kills the caller, the call returns nothing, its file is closed.
OopsCore(t) ==
    /\ call[t].pc \in {"load", "store"}
    /\ ~Valid(t)
    /\ call' = [call EXCEPT ![t] = NoCall]
    /\ fd' = [fd EXCEPT ![t] = "closed"]
    /\ UNCHANGED <<lifecycle, reg>>

ReadEnter(t) ==
    \E count \in Counts : ReadEnterCore(t, count) /\ UNCHANGED ghosts

ReadXfer(t) == ReadXferCore(t) /\ UNCHANGED ghosts

WriteEnter(t) ==
    \E count \in Counts, v \in Bytes, copyOk \in BOOLEAN :
        WriteEnterCore(t, count, v, copyOk) /\ UNCHANGED ghosts

WriteStore(t) ==
    \E hit \in BOOLEAN : WriteStoreCore(t, hit) /\ UNCHANGED ghosts

Oops(t) == OopsCore(t) /\ UNCHANGED ghosts

\* The same steps for one caller, with the result of each call recorded.
Caller == CHOOSE t \in Threads : TRUE

ReadEnterT ==
    \E count \in Counts :
        /\ ReadEnterCore(Caller, count)
        /\ result' = IF CountIsZero(count)
                     THEN [NoResult EXCEPT !.op = "read", !.count = count,
                                           !.regBefore = reg, !.regAfter = reg']
                     ELSE [NoResult EXCEPT !.op = "pending", !.count = count]
        /\ UNCHANGED <<hist, seen, lastStore, stored, delivered>>

ReadXferT ==
    \E copyOk \in BOOLEAN, junk \in Bytes :
        /\ ReadXferCore(Caller)
        /\ LET o == ReadOutcome(Caller, result.count, copyOk, junk)
           IN  result' = [op |-> "read", count |-> result.count, ret |-> o.ret,
                          xfer |-> IF copyOk THEN "ok" ELSE "fail",
                          nacc |-> o.nacc, ncopy |-> o.ncopy, ubuf |-> o.ubuf,
                          valid |-> Valid(Caller),
                          src |-> IF Valid(Caller) THEN lastStore ELSE NoByte,
                          regBefore |-> reg, regAfter |-> reg']
        /\ UNCHANGED <<hist, seen, lastStore, stored, delivered>>

WriteEnterT ==
    \E count \in Counts, v \in Bytes, copyOk \in BOOLEAN :
        /\ WriteEnterCore(Caller, count, v, copyOk)
        /\ result' = IF CountIsZero(count)
                     THEN [NoResult EXCEPT !.op = "write", !.count = count,
                                           !.regBefore = reg, !.regAfter = reg']
                     ELSE IF WriteGivesUp(copy_from_user(copyOk))
                     THEN [NoResult EXCEPT !.op = "write", !.count = count,
                                           !.xfer = "fail", !.ncopy = 1,
                                           !.regBefore = reg, !.regAfter = reg']
                     ELSE [NoResult EXCEPT !.op = "pending", !.count = count,
                                           !.xfer = IF copyOk THEN "ok"
                                                    ELSE "fail"]
        /\ UNCHANGED <<hist, seen, lastStore, stored, delivered>>

WriteStoreT ==
    \E hit \in BOOLEAN :
        /\ WriteStoreCore(Caller, hit)
        /\ LET c == call[Caller]
               o == WriteOutcome(Caller, c.data, hit)
           IN  result' = [op |-> "write", count |-> result.count, ret |-> o.ret,
                          xfer |-> result.xfer, nacc |-> o.nacc,
                          ncopy |-> o.ncopy,
                          ubuf |-> c.ubuf, valid |-> Valid(Caller),
                          src |-> NoByte, regBefore |-> reg, regAfter |-> reg']
        /\ lastStore' = IF Valid(Caller) THEN call[Caller].ubuf ELSE NoByte
        /\ UNCHANGED <<hist, seen, stored, delivered>>

OopsT ==
    /\ OopsCore(Caller)
    /\ result' = [NoResult EXCEPT !.op = "oops"]
    /\ UNCHANGED <<hist, seen, lastStore, stored, delivered>>

\* The same steps for all threads, with the bytes stored and delivered.
\* (Only reads through the held mapping are recorded, and for those the
\* byte an undefined load would yield plays no part.)
ReadXferC(t) ==
    \E copyOk \in BOOLEAN :
        /\ ReadXferCore(t)
        /\ LET o == ReadOutcome(t, 1, copyOk, reg)
           IN  delivered' = IF Valid(t) /\ o.ret = 1 THEN o.ubuf ELSE delivered
        /\ UNCHANGED <<hist, seen, result, lastStore, stored>>

WriteStoreC(t) ==
    \E hit \in BOOLEAN :
        /\ WriteStoreCore(t, hit)
        /\ stored' = stored \cup {call[t].ubuf}
        /\ UNCHANGED <<hist, seen, result, lastStore, delivered>>

\* ---------------------------------------------------------- specifications
\* All threads, all interleavings, no history.
Next ==
    \/ Probe
    \/ Remove
    \/ DevresRelease
    \/ OtherRequest
    \/ OtherRelease
    \/ \E t \in Threads : Open(t)
    \/ \E t \in Threads : Close(t)
    \/ \E t \in Threads : ReadEnter(t)
    \/ \E t \in Threads : ReadXfer(t)
    \/ \E t \in Threads : WriteEnter(t)
    \/ \E t \in Threads : WriteStore(t)
    \/ \E t \in Threads : Oops(t)

Spec == Init /\ [][Next]_vars

\* Bind and unbind events only, with their history.
NextBind ==
    \/ ProbeT
    \/ RemoveT
    \/ DevresRelease
    \/ OtherRequest
    \/ OtherRelease

SpecBind == Init /\ [][NextBind]_vars

\* One caller, one call at a time, with the result of each call.
NextSeq ==
    \/ Probe
    \/ Remove
    \/ DevresRelease
    \/ OtherRequest
    \/ OtherRelease
    \/ Open(Caller)
    \/ Close(Caller)
    \/ ReadEnterT
    \/ ReadXferT
    \/ WriteEnterT
    \/ WriteStoreT
    \/ OopsT

SpecSeq == Init /\ [][NextSeq]_vars

\* All threads, all interleavings, with the bytes stored and delivered.
NextConc ==
    \/ Probe
    \/ Remove
    \/ DevresRelease
    \/ \E t \in Threads : Open(t)
    \/ \E t \in Threads : Close(t)
    \/ \E t \in Threads : ReadEnter(t)
    \/ \E t \in Threads : ReadXferC(t)
    \/ \E t \in Threads : WriteEnter(t)
    \/ \E t \in Threads : WriteStoreC(t)
    \/ \E t \in Threads : Oops(t)

SpecConc == Init /\ [][NextConc]_vars

\* ------------------------------------------------------------------ claims
ErrPointers == {"ERR_EBUSY", "ERR_ENOMEM"}

\* C1: when the Resource Mapper fails during a bind, the bind returns an
\* error (the unit does not become bound), the endpoint is not published
\* and no handle can reach the register of that instance.
C1_MapperFailureLeavesNothingReachable ==
    addr \in ErrPointers =>
        /\ ~bound
        /\ ~published
        /\ \A t \in Threads : fd[t] # "open"

\* C2: every register access is made by a call that started before the
\* endpoint was unpublished, and through a mapping that is still held.
\* (Stated for instances whose bind did map the register, so that a
\* violation is one of unbind and not of a failed mapping.)
C2_AccessOnlyBeforeUnpublishOnHeldMapping ==
    [][\A t \in Threads :
          (/\ call[t].pc \in {"load", "store"}
           /\ call'[t].pc = "idle"
           /\ addr \notin ErrPointers)
              => (~call[t].late /\ Valid(t))]_vars

\* C3: after a successful bind followed by an unbind, no physical range is
\* reserved by the driver, no mapping exists, no endpoint is published.
C3_BindUnbindLeavesNothing ==
    (hist.event = "remove" /\ phase = "idle") =>
        /\ region # "simple"
        /\ ~mapped
        /\ ~published
        /\ ~privLive
        /\ ~bound

C3_Witness ==
    /\ hist.event = "remove"
    /\ phase = "idle"
    /\ hist.mapRes = "IOMEM"
    /\ region = "free"

\* C6: no bind failure is reported as success, and two binds that failed
\* for different causes returned different values.
C6_FailuresDistinguishable ==
    /\ \A p \in seen : p[2] # "0"
    /\ \A p \in seen : \A q \in seen : p[1] # q[1] => p[2] # q[2]

\* C7: when publication fails, the bind returns misc_register's value
\* unchanged after a single attempt, the unit stays unbound, and once the
\* bind is over nothing acquired in it is still held.
C7_PublicationFailurePropagates ==
    (hist.event = "probe_fail" /\ hist.miscRet \notin {"0", "none"}) =>
        /\ hist.ret = hist.miscRet
        /\ hist.miscCalls = 1
        /\ ~bound
        /\ ~published
        /\ phase = "idle" => (region # "simple" /\ ~mapped /\ ~privLive)

C7_Witness ==
    /\ hist.event = "probe_fail"
    /\ hist.miscRet = "-EBUSY"
    /\ hist.mapRes = "IOMEM"
    /\ phase = "idle"
    /\ region = "free"

\* C8: a read of length >= 1 whose copy to user space succeeds, made through
\* the held mapping after a write of v stored through it (and no store
\* since), delivers v and returns 1.
C8_WriteThenReadRoundTrip ==
    (/\ result.op = "read"
     /\ result.count >= 1
     /\ result.xfer = "ok"
     /\ result.valid
     /\ result.src # NoByte) =>
        /\ result.ubuf = result.src
        /\ result.ret = 1

C8_Witness ==
    /\ result.op = "read"
    /\ result.xfer = "ok"
    /\ result.valid
    /\ result.src = ByteWidth - 1
    /\ result.ubuf = ByteWidth - 1
    /\ result.ret = 1

\* C9: a read or write of length 0 returns 0, makes no ioread8/iowrite8 and
\* no user copy, and leaves the register as it was.
C9_ZeroLengthDoesNothing ==
    (result.op \in {"read", "write"} /\ result.count = 0) =>
        /\ result.ret = 0
        /\ result.nacc = 0
        /\ result.ncopy = 0
        /\ result.regAfter = result.regBefore

C9_Witness ==
    /\ result.op = "read"
    /\ result.count = 0
    /\ result.ret = 0
    /\ result.regBefore = ByteWidth - 1
    /\ bound
    /\ mapped

\* C10 as stated: every read or write of length > 1 makes exactly one
\* register access and returns 1.
C10_LongRequestOneAccessOneByte ==
    (result.op \in {"read", "write"} /\ result.count > 1) =>
        (result.nacc = 1 /\ result.ret = 1)

\* C10 amended: a read or write of length > 1 whose user copy succeeds makes
\* exactly one register access and returns 1; no call makes a second one.
C10_LongRequestOneAccessWhenCopied ==
    /\ (result.op \in {"read", "write"} /\ result.count > 1
            /\ result.xfer = "ok") =>
           (result.nacc = 1 /\ result.ret = 1)
    /\ result.nacc <= 1

C10_Witness ==
    /\ result.op = "write"
    /\ result.count = MaxCount
    /\ result.xfer = "ok"
    /\ result.ret = 1
    /\ result.nacc = 1

\* C11: a read or write of length >= 1 whose user copy fails returns 0,
\* never a negative value, and leaves the instance as it was: still bound
\* and published, the caller's file still open and free for the next call.
C11_FailedCopyReturnsZeroAndKeepsInstance ==
    [][(result' # result /\ result'.op \in {"read", "write"}
            /\ result'.count >= 1 /\ result'.xfer = "fail") =>
          /\ result'.ret = 0
          /\ lifecycle' = lifecycle
          /\ fd' = fd
          /\ call'[Caller].pc = "idle"]_vars

C11_Witness ==
    /\ result.op = "read"
    /\ result.count >= 1
    /\ result.xfer = "fail"
    /\ result.ret = 0
    /\ bound
    /\ published
    /\ fd[Caller] = "open"
    /\ call[Caller].pc = "idle"

\* C12: open succeeds for every thread that has no file while the node
\* exists, whoever else has it open; close succeeds for every idle holder;
\* neither changes the mapped address, the register or the publication.
C12_OpenCloseSucceedAndChangeNothing ==
    /\ [](\A t \in Threads :
            /\ (published /\ fd[t] = "closed") => ENABLED Open(t)
            /\ (fd[t] # "closed" /\ call[t].pc = "idle") => ENABLED Close(t))
    /\ [][\A t \in Threads :
            (\/ (fd[t] = "closed" /\ fd'[t] = "open")
             \/ (fd[t] # "closed" /\ fd'[t] = "closed"
                    /\ call[t].pc = "idle")) =>
                (lifecycle' = lifecycle /\ reg' = reg)]_vars

C12_Witness ==
    /\ \A t \in Threads : fd[t] = "open"
    /\ published
    /\ addr = "IOMEM"

\* C13: whenever the endpoint is published, priv->addr is a mapping obtained
\* from a successful devm_ioremap_resource and that mapping is held.
C13_PublishedOnlyOverValidMapping ==
    published => (addr = "IOMEM" /\ mapped /\ region = "simple")

\* C14: for an instance whose bind mapped the register, the endpoint is never
\* published without the mapping and the reservation being held, and they
\* are released only in a step that starts with the endpoint unpublished.
C14_UnpublishBeforeRelease ==
    /\ []((published /\ hist.mapRes = "IOMEM") =>
            (mapped /\ region = "simple" /\ privLive))
    /\ [][((mapped /\ ~mapped') \/ (region = "simple" /\ region' # "simple"))
             => (~published /\ ~published')]_vars

C14_Witness ==
    /\ hist.event = "remove"
    /\ hist.mapRes = "IOMEM"
    /\ phase = "releasing"
    /\ ~published
    /\ mapped
    /\ region = "simple"

\* C15: every byte a successful read through the held mapping delivers is
\* the register's first value or the byte some write has already stored.
C15_ReadDeliversAStoredByte ==
    delivered # NoByte => delivered \in stored

C15_Witness ==
    /\ delivered = ByteWidth - 1
    /\ reg # delivered
    /\ Cardinality(stored) >= 2
    /\ \E t \in Threads : call[t].pc = "store"

\* C16: a write of length >= 1 whose copy from user space fails makes no
\* store, leaves the register as it was and returns 0.
C16_FailedWriteStoresNothing ==
    (result.op = "write" /\ result.count >= 1 /\ result.xfer = "fail") =>
        /\ result.nacc = 0
        /\ result.regAfter = result.regBefore
        /\ result.ret = 0

C16_Witness ==
    /\ result.op = "write"
    /\ result.count >= 1
    /\ result.xfer = "fail"
    /\ result.ret = 0
    /\ result.regBefore = ByteWidth - 1
    /\ Valid(Caller)

\* C17: a read of length >= 1 whose copy to user space fails has made its
\* one load and its one copy attempt, and returns 0.
C17_FailedReadHasLoaded ==
    (result.op = "read" /\ result.count >= 1 /\ result.xfer = "fail") =>
        /\ result.nacc = 1
        /\ result.ncopy = 1
        /\ result.ret = 0

C17_Witness ==
    /\ result.op = "read"
    /\ result.count >= 1
    /\ result.xfer = "fail"
    /\ result.nacc = 1
    /\ result.ret = 0
    /\ result.valid

\* C18: every read and every write returns 0 or 1, and a read leaves the
\* register as it was.
C18_ReturnsZeroOrOneReadKeepsRegister ==
    /\ result.op \in {"read", "write"} => result.ret \in {0, 1}
    /\ result.op = "read" => result.regAfter = result.regBefore

C18_Witness ==
    /\ result.op = "read"
    /\ result.count = MaxCount
    /\ result.ret = 1
    /\ result.nacc = 1
    /\ result.regAfter = ByteWidth - 1

====
